---- MODULE Spec2Model ----
(***************************************************************************)
(* MeliFunctions (src/src/meli/meli.functions.ts): the request-scoped      *)
(* MercadoLibre client.  One client instance owns one req.user.config      *)
(* (the stored token pair) and one axios instance with a request           *)
(* interceptor (bearer header) and a response interceptor (refresh once on *)
(* 401, then retry).  Several outbound requests of the same instance may   *)
(* be in flight at once; every await of the interceptor is a point where   *)
(* the continuations of the other requests may run.                        *)
(***************************************************************************)
EXTENDS Integers, Sequences, FiniteSets, TLC

\* Number of outbound requests issued through one client instance.
NumReq == 2

Requests == 1..NumReq

\* The two catch shapes of the wrapper operations: "getQuestions" stands for
\* the sixteen wrappers whose catch tests error.isAxiosError, "getItem" for
\* the one that returns error.response whatever was caught.
Wrappers == {"getQuestions", "getItem"}

\* const errorCodes = [401]
errorCodes == {401}

\* Status of an error that carries no response (error.response undefined).
NoResponse == 0

\* What the upstream API may answer to a dispatch: a success, an
\* authorization failure, another HTTP error, or nothing (network failure).
SuccessStatuses == {200}
ErrorStatuses == {401, 500, NoResponse}

\* Pair 0 is the pair the principal holds when the client is constructed;
\* the refresh endpoint issues pairs 1, 2, ...
InitialPair == 0
AccessOf(k) == <<"access", k>>
RefreshOf(k) == <<"refresh", k>>

VARIABLES
    meliAccess,    \* req.user.config.meliAccess
    meliRefresh,   \* req.user.config.meliRefresh
    issued,        \* refresh endpoint: number of pairs issued so far
    notified,      \* per request: payloads it handed to emitAsync
    pc,            \* per request: position of its promise chain
    sent,          \* per request: config.sent, the retried marker
    auth,          \* per request: config.headers.Authorization
    dispatches,    \* per request: Authorization header of each dispatch
    upstream,      \* per request: upstream answers, with the marker at receipt
    refreshCalls,  \* per request: refresh tokens passed to refreshAccessToken
    refreshResp,   \* per request: refreshResponse.data, once answered
    outcome,       \* per request: settlement of the httpInstance promise
    result,        \* per request and wrapper operation: what the wrapper
                   \* hands to its caller when it is the one that issued it
    qpc,           \* getQuestions: position
    qFilters,      \* getQuestions: the filters argument
    qSellerId,     \* getQuestions: this.sellerId
    qUrl,          \* getQuestions: url
    qParams        \* getQuestions: params (URLSearchParams), name/value pairs

cvars == <<meliAccess, meliRefresh, issued, notified, pc, sent, auth,
           dispatches, upstream, refreshCalls, refreshResp, outcome, result>>
qvars == <<qpc, qFilters, qSellerId, qUrl, qParams>>
vars == <<meliAccess, meliRefresh, issued, notified, pc, sent, auth,
          dispatches, upstream, refreshCalls, refreshResp, outcome, result,
          qpc, qFilters, qSellerId, qUrl, qParams>>

----------------------------------------------------------------------------
(* Values *)

\* A field that a payload does not have.
Undefined == <<"undefined", 0>>

NoData == [st |-> "none", error |-> FALSE,
           access_token |-> Undefined, refresh_token |-> Undefined]
PendingData == [NoData EXCEPT !.st = "pending"]
FailureData == [NoData EXCEPT !.st = "data", !.error = TRUE]
SuccessData(k) == [st |-> "data", error |-> FALSE,
                   access_token |-> AccessOf(k),
                   refresh_token |-> RefreshOf(k)]

Pending == [t |-> "pending", status |-> NoResponse]
Response(st) == [t |-> "response", status |-> st]
AxiosError(st) == [t |-> "AxiosError", status |-> st]
\* new UnauthorizedException({message: 'Please link meli again',
\*                            action: ErrorActions.LinkMeli})
LinkMeliException == [t |-> "UnauthorizedException", status |-> 401]
\* The rejection of emitAsync: whatever a subscriber threw.
ListenerError == [t |-> "ListenerError", status |-> NoResponse]

NoResult == [how |-> "pending", val |-> "undefined", status |-> NoResponse]

\* `Bearer ${token}`
Bearer(token) == <<"Bearer", token>>

----------------------------------------------------------------------------
(* The wrappers' catch blocks *)

\* error.isAxiosError
IsAxiosError(err) == err.t = "AxiosError"

\* error.response: the upstream response of an AxiosError that has one, the
\* body object of a Nest HttpException, undefined otherwise.
ErrorResponse(err) ==
    IF err.t = "AxiosError" /\ err.status # NoResponse
        THEN [how |-> "return", val |-> "response", status |-> err.status]
    ELSE IF err.t = "UnauthorizedException"
        THEN [how |-> "return", val |-> "exceptionBody", status |-> NoResponse]
    ELSE [how |-> "return", val |-> "undefined", status |-> NoResponse]

Throw(err) == [how |-> "throw", val |-> err.t, status |-> err.status]

\* Mutant: a catch that rethrows whatever it caught.
GuardedCatchRethrows(err) == Throw(err)

\* catch (error) { if (error.isAxiosError) return error.response; throw error }
GuardedCatch(err) ==
    IF IsAxiosError(err) THEN ErrorResponse(err) ELSE Throw(err)

\* catch (error) { return (error as AxiosError).response }
GetItemCatch(err) == ErrorResponse(err)

\* try { return await this.httpInstance...; } catch ...
WrapperResult(w, out) ==
    IF out.t = "response"
        THEN [how |-> "return", val |-> "response", status |-> out.status]
    ELSE IF w = "getItem" THEN GetItemCatch(out)
    ELSE GuardedCatch(out)

----------------------------------------------------------------------------
(* getQuestions: the query it builds *)

\* An optional field is a set: {} when the field is undefined, {v} otherwise.
Has(f) == f # {}
Val(f) == CHOOSE v \in f : TRUE
\* JavaScript truthiness of an optional number and of an optional string.
TruthyNum(f) == Has(f) /\ Val(f) # 0
TruthyStr(f) == Has(f) /\ Val(f) # ""

DigitStr == <<"0", "1", "2", "3", "4", "5", "6", "7", "8", "9">>

\* Number.prototype.toString() of a natural number.
RECURSIVE NumberToString(_)
NumberToString(n) ==
    IF n < 10 THEN DigitStr[n + 1]
    ELSE NumberToString(n \div 10) \o DigitStr[(n % 10) + 1]

\* URLSearchParams.append(name, value)
ParamsAppend(p, name, value) == Append(p, <<name, value>>)

\* URLSearchParams.delete(name): removes every pair of that name.
ParamsDelete(p, name) == SelectSeq(p, LAMBDA e : e[1] # name)

ParamNames(p) == {p[i][1] : i \in DOMAIN p}
ParamValues(p, name) == {p[i][2] : i \in {j \in DOMAIN p : p[j][1] = name}}

SearchUrl == "/questions/search"

\* Mutant: seller_id is appended whatever the filters are.
FromItemStepAlwaysSeller(f, sellerId, p) ==
    IF TruthyNum(f.from) /\ TruthyStr(f.item)
        THEN ParamsAppend(
                 ParamsAppend(ParamsAppend(p, "from",
                                           NumberToString(Val(f.from))),
                              "item", Val(f.item)),
                 "seller_id", NumberToString(sellerId))
        ELSE ParamsAppend(p, "seller_id", NumberToString(sellerId))

\* if (filters?.from && filters.item) {...} else { seller_id }
FromItemStep(f, sellerId, p) ==
    IF TruthyNum(f.from) /\ TruthyStr(f.item)
        THEN ParamsAppend(ParamsAppend(p, "from", NumberToString(Val(f.from))),
                          "item", Val(f.item))
        ELSE ParamsAppend(p, "seller_id", NumberToString(sellerId))

\* if (filters?.status) {...} else { status = UNANSWERED }
StatusStep(f, p) ==
    IF TruthyStr(f.status)
        THEN ParamsAppend(p, "status", Val(f.status))
        ELSE ParamsAppend(p, "status", "UNANSWERED")

\* if (filters?.sort) {...}
SortStep(f, p) ==
    IF Has(f.sort)
        THEN ParamsAppend(ParamsAppend(p, "sort_types", Val(f.sort).order),
                          "sort_fields", Val(f.sort).fields)
        ELSE p

\* Mutant: filters?.limit || 25, which replaces a limit of 0 as well.
LimitValueTruthy(f) ==
    IF TruthyNum(f.limit) THEN NumberToString(Val(f.limit)) ELSE "25"

\* filters?.limit?.toString() || '25': a number's string is never empty.
LimitValue(f) == IF Has(f.limit) THEN NumberToString(Val(f.limit)) ELSE "25"
\* filters?.offset?.toString() || '0'
OffsetValue(f) == IF Has(f.offset) THEN NumberToString(Val(f.offset)) ELSE "0"

PaginationStep(f, p) ==
    ParamsAppend(ParamsAppend(p, "limit", LimitValue(f)),
                 "offset", OffsetValue(f))

\* if (filters?.questionId) { url = `/questions/${id}`; params.delete('*') }
QuestionIdUrl(f, url) ==
    IF TruthyNum(f.questionId)
        THEN "/questions/" \o NumberToString(Val(f.questionId))
        ELSE url

QuestionIdParams(f, p) ==
    IF TruthyNum(f.questionId) THEN ParamsDelete(p, "*") ELSE p

\* The url and the params handed to this.httpInstance.get(url, { params }).
\* A call without a filters argument reads every field as undefined, as a
\* filters object with no fields does.
GetQuestions(f, sellerId) ==
    LET p1 == FromItemStep(f, sellerId, <<>>)
        p2 == StatusStep(f, p1)
        p3 == SortStep(f, p2)
        p4 == PaginationStep(f, p3)
        p5 == QuestionIdParams(f, p4)
    IN  [url |-> QuestionIdUrl(f, SearchUrl),
         params |-> ParamsAppend(p5, "api_version", "4")]

\* The filters the calls are drawn from.
FilterInputs ==
    [from : {{}, {0}, {7}},
     item : {{}, {""}, {"MLA1"}},
     status : {{}, {"ANSWERED"}},
     sort : {{}, {[order |-> "ASC", fields |-> "date_created"]}},
     limit : {{}, {0}, {10}},
     offset : {{}, {0}, {50}},
     questionId : {{}, {0}, {123}}]

SellerIds == {1001}

ClientInit ==
    /\ meliAccess = AccessOf(InitialPair)
    /\ meliRefresh = RefreshOf(InitialPair)
    /\ issued = 0
    /\ notified = [r \in Requests |-> <<>>]
    /\ pc = [r \in Requests |-> "idle"]
    /\ sent = [r \in Requests |-> FALSE]
    /\ auth = [r \in Requests |-> <<>>]
    /\ dispatches = [r \in Requests |-> <<>>]
    /\ upstream = [r \in Requests |-> <<>>]
    /\ refreshCalls = [r \in Requests |-> <<>>]
    /\ refreshResp = [r \in Requests |-> NoData]
    /\ outcome = [r \in Requests |-> Pending]
    /\ result = [r \in Requests |-> [w \in Wrappers |-> NoResult]]

NoFilters ==
    [from |-> {}, item |-> {}, status |-> {}, sort |-> {}, limit |-> {},
     offset |-> {}, questionId |-> {}]

\* The client, with no getQuestions query under construction.
Init ==
    /\ ClientInit
    /\ qpc = "off"
    /\ qFilters = NoFilters
    /\ qSellerId \in SellerIds
    /\ qUrl = SearchUrl
    /\ qParams = <<>>

\* getQuestions is called with filters drawn from FilterInputs.
InitQ ==
    /\ ClientInit
    /\ qpc = "called"
    /\ qFilters \in FilterInputs
    /\ qSellerId \in SellerIds
    /\ qUrl = SearchUrl
    /\ qParams = <<>>

\* getQuestions up to its this.httpInstance.get(url, { params }).
GetQuestionsBuild ==
    /\ qpc = "called"
    /\ qUrl' = GetQuestions(qFilters, qSellerId).url
    /\ qParams' = GetQuestions(qFilters, qSellerId).params
    /\ qpc' = "built"
    /\ UNCHANGED <<qFilters, qSellerId>>
    /\ UNCHANGED cvars

----------------------------------------------------------------------------
(* The interceptors *)

\* config.headers.Authorization = `Bearer ${this.token}`
RequestInterceptor(token) == Bearer(token)

\* Mutant: every error status that carries a response is in the blocker set.
ShouldRefreshAnyStatus(status, marker) == status # NoResponse /\ ~marker

\* Mutant: the test without the retried marker.
ShouldRefreshIgnoringMarker(status, marker) == status \in errorCodes

\* errorCodes.includes(error?.response?.status) && !prevRequest?.sent
ShouldRefresh(status, marker) == status \in errorCodes /\ ~marker

\* The httpInstance promise of r settles and the try/catch of the wrapper
\* that awaits it runs.  The wrappers differ only in their catch, so the
\* result is kept for each of them.
Settle(r, out) ==
    /\ pc' = [pc EXCEPT ![r] = "done"]
    /\ outcome' = [outcome EXCEPT ![r] = out]
    /\ result' = [result EXCEPT
                    ![r] = [w \in Wrappers |-> WrapperResult(w, out)]]

\* Mutant: the request interceptor leaves a header that is already set.
DispatchKeepsHeader(r) ==
    LET header == IF auth[r] = <<>> THEN RequestInterceptor(meliAccess)
                                    ELSE auth[r]
    IN  /\ auth' = [auth EXCEPT ![r] = header]
        /\ dispatches' = [dispatches EXCEPT ![r] = Append(@, header)]
        /\ pc' = [pc EXCEPT ![r] = "dispatched"]

\* this.httpInstance(config): the request interceptor, then the dispatch.
Dispatch(r) ==
    /\ auth' = [auth EXCEPT ![r] = RequestInterceptor(meliAccess)]
    /\ dispatches' = [dispatches EXCEPT
                        ![r] = Append(@, RequestInterceptor(meliAccess))]
    /\ pc' = [pc EXCEPT ![r] = "dispatched"]

\* A wrapper operation calls this.httpInstance.get/post/put/delete.  The
\* requests are numbered in the order in which they are issued.
Call(r) ==
    /\ pc[r] = "idle"
    /\ \A q \in Requests : q < r => pc[q] # "idle"
    /\ Dispatch(r)
    /\ UNCHANGED <<meliAccess, meliRefresh, issued, notified, sent, upstream,
                   refreshCalls, refreshResp, outcome, result>>
    /\ UNCHANGED qvars

\* (res) => res
InterceptSuccess(r, st) ==
    /\ pc[r] = "dispatched"
    /\ st \in SuccessStatuses
    /\ upstream' = [upstream EXCEPT
                      ![r] = Append(@, [status |-> st, sent |-> sent[r]])]
    /\ Settle(r, Response(st))
    /\ UNCHANGED <<meliAccess, meliRefresh, issued, notified, sent,
                   auth, dispatches, refreshCalls, refreshResp>>
    /\ UNCHANGED qvars

\* Mutant: the first branch without prevRequest.sent = true.
InterceptRefreshKeepsMarker(r, st) ==
    /\ pc[r] = "dispatched"
    /\ st \in ErrorStatuses
    /\ ShouldRefresh(st, sent[r])
    /\ Len(refreshCalls[r]) < 3
    /\ upstream' = [upstream EXCEPT
                      ![r] = Append(@, [status |-> st, sent |-> sent[r]])]
    /\ refreshCalls' = [refreshCalls EXCEPT ![r] = Append(@, meliRefresh)]
    /\ refreshResp' = [refreshResp EXCEPT ![r] = PendingData]
    /\ pc' = [pc EXCEPT ![r] = "refreshing"]
    /\ UNCHANGED <<meliAccess, meliRefresh, issued, notified, sent,
                   auth, dispatches, outcome, result>>
    /\ UNCHANGED qvars

\* The error handler, first branch up to its first await: mark the request
\* and call meliOauth.refreshAccessToken(this.userConfig.meliRefresh).
InterceptRefresh(r, st) ==
    /\ pc[r] = "dispatched"
    /\ st \in ErrorStatuses
    /\ ShouldRefresh(st, sent[r])
    /\ upstream' = [upstream EXCEPT
                      ![r] = Append(@, [status |-> st, sent |-> sent[r]])]
    /\ sent' = [sent EXCEPT ![r] = TRUE]
    /\ refreshCalls' = [refreshCalls EXCEPT ![r] = Append(@, meliRefresh)]
    /\ refreshResp' = [refreshResp EXCEPT ![r] = PendingData]
    /\ pc' = [pc EXCEPT ![r] = "refreshing"]
    /\ UNCHANGED <<meliAccess, meliRefresh, issued, notified, auth,
                   dispatches, outcome, result>>
    /\ UNCHANGED qvars

\* The error handler, fall-through: return Promise.reject(error).
InterceptReject(r, st) ==
    /\ pc[r] = "dispatched"
    /\ st \in ErrorStatuses
    /\ ~ShouldRefresh(st, sent[r])
    /\ upstream' = [upstream EXCEPT
                      ![r] = Append(@, [status |-> st, sent |-> sent[r]])]
    /\ Settle(r, AxiosError(st))
    /\ UNCHANGED <<meliAccess, meliRefresh, issued, notified, sent,
                   auth, dispatches, refreshCalls, refreshResp>>
    /\ UNCHANGED qvars

\* The refresh endpoint answers the exchange of r: a new pair, or an error
\* payload.
RefreshEndpointAnswers(r, ok) ==
    /\ pc[r] = "refreshing"
    /\ refreshResp[r].st = "pending"
    /\ IF ok
          THEN /\ issued' = issued + 1
               /\ refreshResp' = [refreshResp EXCEPT
                                    ![r] = SuccessData(issued + 1)]
          ELSE /\ issued' = issued
               /\ refreshResp' = [refreshResp EXCEPT ![r] = FailureData]
    /\ UNCHANGED <<meliAccess, meliRefresh, notified, pc, sent, auth,
                   dispatches, upstream, refreshCalls, outcome, result>>
    /\ UNCHANGED qvars

\* Mutant: the error payload is not tested and the request is re-dispatched.
RefreshFailedRetries(r) ==
    /\ pc[r] = "refreshing"
    /\ refreshResp[r].st = "data"
    /\ refreshResp[r].error
    /\ Dispatch(r)
    /\ UNCHANGED <<meliAccess, meliRefresh, issued, notified, sent,
                   upstream, refreshCalls, refreshResp, outcome, result>>
    /\ UNCHANGED qvars

\* Mutant: the error payload is tested after the tokens are stored and the
\* notification is emitted.
RefreshFailedStores(r) ==
    /\ pc[r] = "refreshing"
    /\ refreshResp[r].st = "data"
    /\ refreshResp[r].error
    /\ meliAccess' = refreshResp[r].access_token
    /\ meliRefresh' = refreshResp[r].refresh_token
    /\ notified' = [notified EXCEPT ![r] = Append(@, refreshResp[r])]
    /\ Settle(r, LinkMeliException)
    /\ UNCHANGED <<issued, sent, auth, dispatches, upstream,
                   refreshCalls, refreshResp>>
    /\ UNCHANGED qvars

\* if ('error' in refreshResponse.data) throw new UnauthorizedException(...)
RefreshFailed(r) ==
    /\ pc[r] = "refreshing"
    /\ refreshResp[r].st = "data"
    /\ refreshResp[r].error
    /\ Settle(r, LinkMeliException)
    /\ UNCHANGED <<meliAccess, meliRefresh, issued, notified, sent,
                   auth, dispatches, upstream, refreshCalls, refreshResp>>
    /\ UNCHANGED qvars

\* Mutant: only the access token is stored.
StoreTokensAccessOnly(data) ==
    /\ meliAccess' = data.access_token
    /\ meliRefresh' = meliRefresh

\* Mutant: a returned pair replaces the stored one only when the endpoint
\* issued it later.
StoreTokensIfNewer(data) ==
    IF data.access_token[2] > meliAccess[2]
        THEN /\ meliAccess' = data.access_token
             /\ meliRefresh' = data.refresh_token
        ELSE /\ meliAccess' = meliAccess
             /\ meliRefresh' = meliRefresh

\* Mutant: only the refresh token is stored.
StoreTokensRefreshOnly(data) ==
    /\ meliAccess' = meliAccess
    /\ meliRefresh' = data.refresh_token

\* this.token = ...; this.refreshToken = ...
StoreTokens(data) ==
    /\ meliAccess' = data.access_token
    /\ meliRefresh' = data.refresh_token

\* Mutant: emitAsync is not awaited, the request is re-dispatched at once.
RefreshSucceededNoAwait(r) ==
    /\ pc[r] = "refreshing"
    /\ refreshResp[r].st = "data"
    /\ ~refreshResp[r].error
    /\ meliAccess' = refreshResp[r].access_token
    /\ meliRefresh' = refreshResp[r].refresh_token
    /\ auth' = [auth EXCEPT ![r] = Bearer(meliAccess')]
    /\ dispatches' = [dispatches EXCEPT ![r] = Append(@, Bearer(meliAccess'))]
    /\ notified' = [notified EXCEPT ![r] = Append(@, refreshResp[r])]
    /\ pc' = [pc EXCEPT ![r] = "dispatched"]
    /\ UNCHANGED <<issued, sent, upstream, refreshCalls, refreshResp,
                   outcome, result>>
    /\ UNCHANGED qvars

\* The continuation after the refresh: store the pair, overwrite the header,
\* call emitAsync('meli.tokens.update', refreshResponse.data).
RefreshSucceeded(r) ==
    /\ pc[r] = "refreshing"
    /\ refreshResp[r].st = "data"
    /\ ~refreshResp[r].error
    /\ StoreTokens(refreshResp[r])
    /\ auth' = [auth EXCEPT ![r] = Bearer(meliAccess')]
    /\ notified' = [notified EXCEPT ![r] = Append(@, refreshResp[r])]
    /\ pc' = [pc EXCEPT ![r] = "emitting"]
    /\ UNCHANGED <<issued, sent, dispatches, upstream, refreshCalls,
                   refreshResp, outcome, result>>
    /\ UNCHANGED qvars

\* Mutant: the re-dispatched config has lost the retried marker.
EmitResolvedLosesMarker(r) ==
    /\ pc[r] = "emitting"
    /\ Len(dispatches[r]) < 4
    /\ Dispatch(r)
    /\ sent' = [sent EXCEPT ![r] = FALSE]
    /\ UNCHANGED <<meliAccess, meliRefresh, issued, notified, upstream, refreshCalls, refreshResp, outcome, result>>
    /\ UNCHANGED qvars

\* await emitAsync resolved: return this.httpInstance(prevRequest).  The
\* re-dispatched config keeps its custom field sent.
EmitResolved(r) ==
    /\ pc[r] = "emitting"
    /\ Dispatch(r)
    /\ UNCHANGED <<meliAccess, meliRefresh, issued, notified, sent,
                   upstream, refreshCalls, refreshResp, outcome, result>>
    /\ UNCHANGED qvars

\* await emitAsync rejected (a subscriber threw or rejected): the handler
\* rejects with the subscriber's error.
EmitRejected(r) ==
    /\ pc[r] = "emitting"
    /\ Settle(r, ListenerError)
    /\ UNCHANGED <<meliAccess, meliRefresh, issued, notified, sent,
                   auth, dispatches, upstream, refreshCalls, refreshResp>>
    /\ UNCHANGED qvars

Next ==
    \/ \E r \in Requests : Call(r)
    \/ \E r \in Requests, st \in SuccessStatuses : InterceptSuccess(r, st)
    \/ \E r \in Requests, st \in ErrorStatuses : InterceptRefresh(r, st)
    \/ \E r \in Requests, st \in ErrorStatuses : InterceptReject(r, st)
    \/ \E r \in Requests, ok \in BOOLEAN : RefreshEndpointAnswers(r, ok)
    \/ \E r \in Requests : RefreshFailed(r)
    \/ \E r \in Requests : RefreshSucceeded(r)
    \/ \E r \in Requests : EmitResolved(r)
    \/ \E r \in Requests : EmitRejected(r)

Spec == Init /\ [][Next]_vars

\* The upstream API answers every dispatch, the refresh endpoint every
\* exchange and the subscribers every emitAsync; the continuation of an
\* answered await runs.
Fairness ==
    \A r \in Requests :
        /\ WF_vars(\E st \in SuccessStatuses \cup ErrorStatuses :
                       \/ InterceptSuccess(r, st)
                       \/ InterceptRefresh(r, st)
                       \/ InterceptReject(r, st))
        /\ WF_vars(\E ok \in BOOLEAN : RefreshEndpointAnswers(r, ok))
        /\ WF_vars(RefreshFailed(r) \/ RefreshSucceeded(r))
        /\ WF_vars(EmitResolved(r) \/ EmitRejected(r))

SpecLive == Spec /\ Fairness

NextQ == GetQuestionsBuild

SpecQ == InitQ /\ [][NextQ]_vars

----------------------------------------------------------------------------
(* Properties of the refresh-and-retry interceptor *)

Done(r) == pc[r] = "done"

\* r received a 401 while its retried marker was unset / set.
Got401Fresh(r) ==
    \E i \in DOMAIN upstream[r] :
        upstream[r][i].status \in errorCodes /\ ~upstream[r][i].sent
Got401Retried(r) ==
    \E i \in DOMAIN upstream[r] :
        upstream[r][i].status \in errorCodes /\ upstream[r][i].sent

RefreshOk(r) == refreshResp[r].st = "data" /\ ~refreshResp[r].error
RefreshError(r) == refreshResp[r].st = "data" /\ refreshResp[r].error

\* C1: per original request at most one refresh exchange and at most two
\* dispatches; a 401 received with the retried marker set triggers neither a
\* refresh nor a re-dispatch and settles the request with that 401 error.
C1_OneRefreshTwoDispatches ==
    \A r \in Requests :
        /\ Len(refreshCalls[r]) <= 1
        /\ Len(dispatches[r]) <= 2
        /\ Got401Retried(r) =>
              /\ Done(r)
              /\ outcome[r] = AxiosError(401)
              /\ Len(refreshCalls[r]) = 1
              /\ Len(dispatches[r]) = 2

C1_Witness ==
    \E r \in Requests : Got401Retried(r) /\ Done(r)

\* C2 as stated: a request that received a 401 with a fresh marker has, once
\* it is over, made exactly one refresh exchange and exactly one retried
\* dispatch.
C2_ExactlyOneRefreshAndRetry ==
    \A r \in Requests :
        (Done(r) /\ Got401Fresh(r)) =>
            /\ Len(refreshCalls[r]) = 1
            /\ Len(dispatches[r]) = 2

\* C2 amended: a request that received a 401 with a fresh marker has made
\* exactly one refresh exchange and at most one retried dispatch, and a
\* retried dispatch only after its refresh exchange returned Success.
C2_OneRefreshAtMostOneRetry ==
    \A r \in Requests :
        /\ Got401Fresh(r) <=> Len(refreshCalls[r]) = 1
        /\ Got401Fresh(r) =>
              /\ Len(dispatches[r]) \in {1, 2}
              /\ Len(dispatches[r]) = 2 => RefreshOk(r)
        /\ ~Got401Fresh(r) => Len(refreshCalls[r]) = 0 /\ Len(dispatches[r]) <= 1

C2_Witness ==
    \E r \in Requests :
        Got401Fresh(r) /\ Done(r) /\ Len(dispatches[r]) = 2
                       /\ outcome[r] = Response(200)

\* C3: when the refresh exchange returns an error payload the request
\* settles with the 'Please link meli again' UnauthorizedException and is
\* never dispatched again.
C3_RefreshFailureAborts ==
    \A r \in Requests :
        RefreshError(r) =>
            /\ Len(dispatches[r]) = 1
            /\ pc[r] \in {"refreshing", "done"}
            /\ Done(r) => outcome[r] = LinkMeliException

C3_Witness ==
    \E r \in Requests :
        RefreshError(r) /\ Done(r) /\ Len(dispatches[r]) = 1

\* The access tokens that successful refresh exchanges have returned.
RefreshedAccessTokens ==
    {refreshResp[q].access_token : q \in {x \in Requests : RefreshOk(x)}}

\* C4 amended: the continuation of a successful refresh stores exactly the
\* returned access and refresh tokens and writes the returned access token
\* into the request's header; the retried dispatch carries an access token
\* returned by a refresh exchange of this client (this request's own when no
\* other request has refreshed), never the token of the dispatch that got the
\* 401.
C4_StoreStep ==
    \A r \in Requests :
        (pc[r] = "refreshing" /\ pc'[r] = "emitting") =>
            /\ meliAccess' = refreshResp[r].access_token
            /\ meliRefresh' = refreshResp[r].refresh_token
            /\ auth'[r] = Bearer(refreshResp[r].access_token)

C4_RetryHeader ==
    \A r \in Requests :
        Len(dispatches[r]) = 2 =>
            /\ dispatches[r][2] # dispatches[r][1]
            /\ dispatches[r][2] \in {Bearer(t) : t \in RefreshedAccessTokens}

C4_NewTokensStoredAndSent == [][C4_StoreStep]_vars /\ []C4_RetryHeader

\* A retried dispatch that carries the pair another request stored between
\* this request's refresh and its retry.
C4_Witness ==
    \E r \in Requests :
        /\ Len(dispatches[r]) = 2
        /\ RefreshOk(r)
        /\ dispatches[r][2] # Bearer(refreshResp[r].access_token)
        /\ dispatches[r][2] = Bearer(meliAccess)

\* C4 as stated: the retried dispatch carries the access token that this
\* request's own refresh exchange returned.
C4_RetryCarriesOwnNewToken ==
    \A r \in Requests :
        Len(dispatches[r]) = 2 =>
            dispatches[r][2] = Bearer(refreshResp[r].access_token)

\* C5 as stated: after a successful refresh (the notification was emitted)
\* the request is re-dispatched exactly once and settles with the result of
\* that dispatch, whatever the broadcast did.
C5_BroadcastDoesNotGateRetry ==
    \A r \in Requests :
        (Done(r) /\ RefreshOk(r) /\ Len(notified[r]) = 1) =>
            /\ Len(dispatches[r]) = 2
            /\ outcome[r].t \in {"response", "AxiosError"}

\* C6 as stated: a transport failure without a response and the relink
\* exception of a failed refresh are raised by every never returned.
C6_NonHttpFailuresRaised ==
    \A r \in Requests :
        (Done(r) /\ (outcome[r] = AxiosError(NoResponse)
                        \/ outcome[r] = LinkMeliException)) =>
            \A w \in Wrappers : result[r][w].how = "throw"

\* C7: when the request ends in an upstream HTTP-status error (a non-401
\* error, or an error of the retried dispatch), the wrapper returns the
\* upstream error response as a value and does not raise.
C7_HttpErrorsReturned ==
    \A r \in Requests :
        (Done(r) /\ outcome[r].t = "AxiosError"
                 /\ outcome[r].status # NoResponse) =>
            \A w \in Wrappers :
                result[r][w] = [how |-> "return", val |-> "response",
                                status |-> outcome[r].status]

C7_Witness ==
    \E r \in Requests, q \in Requests :
        /\ Done(r) /\ outcome[r] = AxiosError(401) /\ sent[r]
        /\ result[r]["getQuestions"].how = "return"
        /\ Done(q) /\ outcome[q] = AxiosError(500)
        /\ result[q]["getItem"].how = "return"

\* C8: the stored pair changes only in the continuation of a successful
\* refresh exchange; the continuation of a failed one leaves the pair alone
\* and emits no notification.
C8_StoreStep ==
    /\ (meliAccess' # meliAccess \/ meliRefresh' # meliRefresh) =>
          \E r \in Requests :
              /\ pc[r] = "refreshing" /\ RefreshOk(r)
              /\ pc'[r] = "emitting"
    /\ \A r \in Requests :
          (pc[r] = "refreshing" /\ RefreshError(r) /\ pc'[r] # pc[r]) =>
              /\ meliAccess' = meliAccess
              /\ meliRefresh' = meliRefresh
              /\ notified' = notified
    /\ \A r \in Requests :
          (pc[r] = "dispatched" /\ pc'[r] # "dispatched") =>
              /\ meliAccess' = meliAccess
              /\ meliRefresh' = meliRefresh
              /\ notified' = notified

C8_OnlySuccessfulRefreshMutates == [][C8_StoreStep]_vars

C8_Witness ==
    \E r \in Requests, q \in Requests :
        /\ Done(r) /\ outcome[r] = LinkMeliException /\ notified[r] = <<>>
        /\ RefreshOk(q) /\ meliAccess = refreshResp[q].access_token
        /\ meliAccess # AccessOf(InitialPair)

\* C9: under every interleaving each request makes at most one refresh
\* exchange, and the exchanges are per request: there are as many of them as
\* requests that received a 401 with a fresh marker, and the endpoint has
\* issued at most one pair per such request.
RECURSIVE SumRefreshCalls(_)
SumRefreshCalls(S) ==
    IF S = {} THEN 0
    ELSE LET r == CHOOSE x \in S : TRUE
         IN  Len(refreshCalls[r]) + SumRefreshCalls(S \ {r})

C9_OneRefreshPerRequest ==
    /\ \A r \in Requests : Len(refreshCalls[r]) <= 1
    /\ SumRefreshCalls(Requests)
          = Cardinality({r \in Requests : Got401Fresh(r)})
    /\ issued <= SumRefreshCalls(Requests)

\* Two requests of the same client, each in its own refresh exchange, both
\* exchanged with the same stored refresh token.
C9_Witness ==
    \E r \in Requests, q \in Requests :
        /\ r # q
        /\ pc[r] = "refreshing" /\ pc[q] = "refreshing"
        /\ refreshCalls[r] = refreshCalls[q]
        /\ Len(refreshCalls[r]) = 1
        /\ SumRefreshCalls(Requests) >= 2

----------------------------------------------------------------------------
(* Properties of getQuestions *)

FilterParamNames ==
    {"from", "item", "status", "sort_types", "sort_fields", "limit", "offset"}

\* C10 as stated: with a question identifier the request targets
\* /questions/<questionId> and no other filter is left in the query.
C10_QuestionIdOverrides ==
    (qpc = "built" /\ TruthyNum(qFilters.questionId)) =>
        /\ qUrl = "/questions/" \o NumberToString(Val(qFilters.questionId))
        /\ ParamNames(qParams) \cap FilterParamNames = {}

\* The from/item part of the query when the pair counts as complete or not.
FromItemQuery(complete) ==
    IF complete
        THEN /\ ParamValues(qParams, "from")
                  = {NumberToString(Val(qFilters.from))}
             /\ ParamValues(qParams, "item") = {Val(qFilters.item)}
             /\ "seller_id" \notin ParamNames(qParams)
        ELSE /\ "from" \notin ParamNames(qParams)
             /\ "item" \notin ParamNames(qParams)
             /\ ParamValues(qParams, "seller_id") = {NumberToString(qSellerId)}

\* C11 as stated: from and item are both in the query, and seller_id is
\* not, exactly when both were supplied; otherwise neither is sent and the
\* query carries seller_id.
C11_PairSuppliedIffNoSeller ==
    qpc = "built" => FromItemQuery(Has(qFilters.from) /\ Has(qFilters.item))

\* C11 amended: the pair is complete when from is supplied and not 0 and
\* item is supplied and not the empty string; then both are in the query
\* and seller_id is not; otherwise neither is sent and the query carries
\* seller_id.
C11_PairTruthyIffNoSeller ==
    qpc = "built" =>
        FromItemQuery(TruthyNum(qFilters.from) /\ TruthyStr(qFilters.item))

C11_Witness ==
    /\ qpc = "built"
    /\ TruthyNum(qFilters.from) /\ TruthyStr(qFilters.item)
    /\ {"from", "item"} \subseteq ParamNames(qParams)
    /\ "seller_id" \notin ParamNames(qParams)

----------------------------------------------------------------------------
(* Steps of the interceptor *)

\* The upstream answer that r receives in this step.
Receives(r) == Len(upstream'[r]) = Len(upstream[r]) + 1
Received(r) == upstream'[r][Len(upstream'[r])]

\* C13: a successful response, an error whose status is not 401 and a 401
\* on a request already marked retried pass through unchanged: the request
\* settles with that very answer, no refresh exchange is invoked, no
\* notification is emitted, the marker is not changed, nothing is
\* re-dispatched and the stored pair is left alone.
C13_PassThroughStep ==
    \A r \in Requests :
        (Receives(r) /\ (Received(r).status \notin errorCodes
                            \/ Received(r).sent)) =>
            /\ pc'[r] = "done"
            /\ outcome'[r] = IF Received(r).status \in SuccessStatuses
                                 THEN Response(Received(r).status)
                                 ELSE AxiosError(Received(r).status)
            /\ refreshCalls' = refreshCalls
            /\ refreshResp' = refreshResp
            /\ notified' = notified
            /\ sent' = sent
            /\ dispatches' = dispatches
            /\ auth' = auth
            /\ meliAccess' = meliAccess
            /\ meliRefresh' = meliRefresh

C13_PassThroughUnchanged == [][C13_PassThroughStep]_vars

C13_Witness ==
    \E r \in Requests, q \in Requests :
        /\ Done(r) /\ outcome[r] = AxiosError(500)
        /\ ~sent[r] /\ refreshCalls[r] = <<>> /\ Len(dispatches[r]) = 1
        /\ Done(q) /\ outcome[q] = AxiosError(401) /\ sent[q]
        /\ Len(refreshCalls[q]) = 1 /\ Len(dispatches[q]) = 2

\* C14: on the refresh path the marker is set when the refresh exchange is
\* invoked; the pair is stored only from a Success answer; the notification
\* is emitted only with the store written, carrying the stored pair; the
\* retried dispatch is issued only when the awaited emitAsync has resolved,
\* hence after the store write and after the notification.
C14_OrderState ==
    \A r \in Requests :
        /\ Len(refreshCalls[r]) >= 1 => sent[r]
        /\ Len(notified[r]) >= 1 =>
              /\ RefreshOk(r)
              /\ notified[r] = <<refreshResp[r]>>
              /\ pc[r] \in {"emitting", "dispatched", "done"}
        /\ pc[r] = "emitting" => Len(dispatches[r]) = 1
        /\ Len(dispatches[r]) = 2 => Len(notified[r]) = 1

C14_OrderStep ==
    \A r \in Requests :
        /\ Len(refreshCalls'[r]) > Len(refreshCalls[r]) => sent'[r]
        /\ Len(notified'[r]) > Len(notified[r]) =>
              /\ RefreshOk(r)
              /\ meliAccess' = refreshResp[r].access_token
              /\ meliRefresh' = refreshResp[r].refresh_token
              /\ dispatches'[r] = dispatches[r]
        /\ (Len(dispatches'[r]) > Len(dispatches[r]) /\ Len(dispatches[r]) >= 1) =>
              /\ pc[r] = "emitting"
              /\ Len(notified[r]) = 1
              /\ notified' = notified

C14_RefreshPathOrder == []C14_OrderState /\ [][C14_OrderStep]_vars

C14_Witness ==
    \E r \in Requests :
        /\ Len(dispatches[r]) = 2 /\ pc[r] = "dispatched"
        /\ sent[r] /\ Len(notified[r]) = 1
        /\ meliAccess = refreshResp[r].access_token

\* C15: every dispatch, original or retried, carries as bearer credential
\* the access token stored at the moment of the dispatch.
C15_DispatchStep ==
    \A r \in Requests :
        dispatches'[r] # dispatches[r] =>
            /\ dispatches'[r] = Append(dispatches[r], Bearer(meliAccess))
            /\ meliAccess' = meliAccess

C15_DispatchCarriesStoredToken == [][C15_DispatchStep]_vars

\* A retried dispatch after another request stored a newer pair between
\* this request's refresh and its retry: it carries the stored token, not
\* the one its own refresh returned.
C15_Witness ==
    \E r \in Requests, q \in Requests :
        /\ r # q
        /\ Len(dispatches[r]) = 2 /\ pc[r] = "dispatched"
        /\ RefreshOk(r) /\ RefreshOk(q)
        /\ meliAccess = refreshResp[q].access_token
        /\ dispatches[r][2] = Bearer(refreshResp[q].access_token)
        /\ dispatches[r][2] # Bearer(refreshResp[r].access_token)

----------------------------------------------------------------------------
(* The stored pair under concurrent refreshes *)

\* C16: in every reachable state the stored access token and the stored
\* refresh token belong to the same pair, the initial one or the one of a
\* single refresh response.
C16_StoredPairConsistent ==
    \E k \in InitialPair..issued :
        /\ meliAccess = AccessOf(k)
        /\ meliRefresh = RefreshOf(k)

\* Two refresh exchanges have returned a pair and both pairs were stored.
C16_Witness ==
    \E r \in Requests, q \in Requests :
        /\ r # q
        /\ RefreshOk(r) /\ RefreshOk(q)
        /\ pc[r] \notin {"refreshing"} /\ pc[q] \notin {"refreshing"}
        /\ meliAccess = refreshResp[q].access_token
        /\ meliRefresh = refreshResp[q].refresh_token

AllDone == \A r \in Requests : Done(r)

\* C17 as stated: once all requests have completed (no broadcast having
\* failed), the stored pair is the pair the refresh endpoint issued last.
C17_LatestIssuedPairStored ==
    (AllDone /\ \A r \in Requests : outcome[r].t # "ListenerError") =>
        /\ meliAccess = AccessOf(issued)
        /\ meliRefresh = RefreshOf(issued)

\* C17 amended: the continuation of every successful refresh overwrites the
\* stored pair with the pair of its own response, whichever pair is stored;
\* once all requests have completed the stored pair is the initial pair when
\* no exchange succeeded and otherwise the pair of one of the successful
\* exchanges, the one whose response was handled last.
C17_StoredState ==
    AllDone =>
        IF \E r \in Requests : RefreshOk(r)
            THEN \E r \in Requests :
                     /\ RefreshOk(r)
                     /\ meliAccess = refreshResp[r].access_token
                     /\ meliRefresh = refreshResp[r].refresh_token
            ELSE /\ meliAccess = AccessOf(InitialPair)
                 /\ meliRefresh = RefreshOf(InitialPair)

C17_OverwriteStep ==
    \A r \in Requests :
        (pc[r] = "refreshing" /\ RefreshOk(r) /\ pc'[r] # "refreshing") =>
            /\ meliAccess' = refreshResp[r].access_token
            /\ meliRefresh' = refreshResp[r].refresh_token

C17_LastHandledPairStored == []C17_StoredState /\ [][C17_OverwriteStep]_vars

\* All requests are over, the endpoint issued two pairs and the first one
\* is the one stored.
C17_Witness ==
    /\ AllDone
    /\ \A r \in Requests : outcome[r].t \in {"response", "AxiosError"}
    /\ issued >= 2
    /\ meliAccess = AccessOf(1)
    /\ meliRefresh = RefreshOf(1)

----------------------------------------------------------------------------
(* Termination *)

\* Every issued request is eventually over, provided the upstream API, the
\* refresh endpoint and the subscribers answer.
C18_Terminates ==
    \A r \in Requests : (pc[r] # "idle") ~> Done(r)

\* C18 as stated, its final outcomes: a request that is over has settled
\* with a successful response, with an upstream error response, or with a
\* raised error that is the relink exception or a transport failure.
C18_OneOfThreeOutcomes ==
    \A r \in Requests :
        Done(r) =>
            \/ outcome[r].t = "response"
            \/ outcome[r].t = "AxiosError" /\ outcome[r].status # NoResponse
            \/ outcome[r] = LinkMeliException
            \/ outcome[r] = AxiosError(NoResponse)

====
